---- MODULE Spec2Model ----
(***************************************************************************)
(* Coffee recommender: coffee_tools.py (catalog loader, preference         *)
(* classifier, filter pipeline, country selection) and the recommend_coffee*)
(* tool handler of server.py.                                              *)
(*                                                                         *)
(* Text is modelled as a sequence of Unicode code points, so that len(),   *)
(* str.lower() and substring search are computed as Python computes them.  *)
(***************************************************************************)
EXTENDS Integers, Sequences, FiniteSets

VARIABLES
    file,         \* coffee_clean.csv on disk: absent, or its columns and raw rows
    GLOBAL_DF,    \* coffee_tools.GLOBAL_DF
    fileReads,    \* number of pd.read_csv executions so far
    pc,           \* "start" (module not imported), "ready", "done"
    preference,   \* argument of get_coffee_recommendations
    target_type,  \* local of get_coffee_recommendations (line 83)
    df,           \* local df of get_coffee_recommendations when it returns
    result,       \* value returned (or exception raised) by get_coffee_recommendations
    hpc,          \* handle_call_tool: "idle", "waiting", "shutdown", "returned"
    clock,        \* seconds since executor.submit
    worker,       \* the executor's thread: "none", "running", "finished"
    future,       \* outcome held by the future once the worker finished
    response,     \* what handle_call_tool returned
    returnedAt    \* clock value when handle_call_tool returned

vars == << file, GLOBAL_DF, fileReads, pc, preference, target_type, df, result,
           hpc, clock, worker, future, response, returnedAt >>

engineVars == << file, GLOBAL_DF, fileReads, pc, preference, target_type, df, result >>
serverVars == << hpc, clock, worker, future, response, returnedAt >>

----------------------------------------------------------------------------
(* Text helpers *)

\* Tables of the Unicode character database (version 14.0, the one of
\* CPython 3.11) that str.lower() reads.

\* << first, last, step, delta >>: the code points first, first + step, ...,
\* last have the one-code-point lowercase form c + delta.
LowerRanges ==
    << <<65, 90, 1, 32>>, <<192, 214, 1, 32>>, <<216, 222, 1, 32>>, <<256, 302, 2, 1>>,
       <<306, 310, 2, 1>>, <<313, 327, 2, 1>>, <<330, 374, 2, 1>>, <<376, 376, 1, -121>>,
       <<377, 381, 2, 1>>, <<385, 385, 1, 210>>, <<386, 388, 2, 1>>, <<390, 390, 1, 206>>,
       <<391, 391, 1, 1>>, <<393, 394, 1, 205>>, <<395, 395, 1, 1>>, <<398, 398, 1, 79>>,
       <<399, 399, 1, 202>>, <<400, 400, 1, 203>>, <<401, 401, 1, 1>>, <<403, 403, 1, 205>>,
       <<404, 404, 1, 207>>, <<406, 406, 1, 211>>, <<407, 407, 1, 209>>, <<408, 408, 1, 1>>,
       <<412, 412, 1, 211>>, <<413, 413, 1, 213>>, <<415, 415, 1, 214>>, <<416, 420, 2, 1>>,
       <<422, 422, 1, 218>>, <<423, 423, 1, 1>>, <<425, 425, 1, 218>>, <<428, 428, 1, 1>>,
       <<430, 430, 1, 218>>, <<431, 431, 1, 1>>, <<433, 434, 1, 217>>, <<435, 437, 2, 1>>,
       <<439, 439, 1, 219>>, <<440, 440, 1, 1>>, <<444, 444, 1, 1>>, <<452, 452, 1, 2>>,
       <<453, 453, 1, 1>>, <<455, 455, 1, 2>>, <<456, 456, 1, 1>>, <<458, 458, 1, 2>>,
       <<459, 475, 2, 1>>, <<478, 494, 2, 1>>, <<497, 497, 1, 2>>, <<498, 500, 2, 1>>,
       <<502, 502, 1, -97>>, <<503, 503, 1, -56>>, <<504, 542, 2, 1>>, <<544, 544, 1, -130>>,
       <<546, 562, 2, 1>>, <<570, 570, 1, 10795>>, <<571, 571, 1, 1>>, <<573, 573, 1, -163>>,
       <<574, 574, 1, 10792>>, <<577, 577, 1, 1>>, <<579, 579, 1, -195>>, <<580, 580, 1, 69>>,
       <<581, 581, 1, 71>>, <<582, 590, 2, 1>>, <<880, 882, 2, 1>>, <<886, 886, 1, 1>>,
       <<895, 895, 1, 116>>, <<902, 902, 1, 38>>, <<904, 906, 1, 37>>, <<908, 908, 1, 64>>,
       <<910, 911, 1, 63>>, <<913, 929, 1, 32>>, <<931, 939, 1, 32>>, <<975, 975, 1, 8>>,
       <<984, 1006, 2, 1>>, <<1012, 1012, 1, -60>>, <<1015, 1015, 1, 1>>, <<1017, 1017, 1, -7>>,
       <<1018, 1018, 1, 1>>, <<1021, 1023, 1, -130>>, <<1024, 1039, 1, 80>>, <<1040, 1071, 1, 32>>,
       <<1120, 1152, 2, 1>>, <<1162, 1214, 2, 1>>, <<1216, 1216, 1, 15>>, <<1217, 1229, 2, 1>>,
       <<1232, 1326, 2, 1>>, <<1329, 1366, 1, 48>>, <<4256, 4293, 1, 7264>>, <<4295, 4295, 1, 7264>>,
       <<4301, 4301, 1, 7264>>, <<5024, 5103, 1, 38864>>, <<5104, 5109, 1, 8>>, <<7312, 7354, 1, -3008>>,
       <<7357, 7359, 1, -3008>>, <<7680, 7828, 2, 1>>, <<7838, 7838, 1, -7615>>, <<7840, 7934, 2, 1>>,
       <<7944, 7951, 1, -8>>, <<7960, 7965, 1, -8>>, <<7976, 7983, 1, -8>>, <<7992, 7999, 1, -8>>,
       <<8008, 8013, 1, -8>>, <<8025, 8031, 2, -8>>, <<8040, 8047, 1, -8>>, <<8072, 8079, 1, -8>>,
       <<8088, 8095, 1, -8>>, <<8104, 8111, 1, -8>>, <<8120, 8121, 1, -8>>, <<8122, 8123, 1, -74>>,
       <<8124, 8124, 1, -9>>, <<8136, 8139, 1, -86>>, <<8140, 8140, 1, -9>>, <<8152, 8153, 1, -8>>,
       <<8154, 8155, 1, -100>>, <<8168, 8169, 1, -8>>, <<8170, 8171, 1, -112>>, <<8172, 8172, 1, -7>>,
       <<8184, 8185, 1, -128>>, <<8186, 8187, 1, -126>>, <<8188, 8188, 1, -9>>, <<8486, 8486, 1, -7517>>,
       <<8490, 8490, 1, -8383>>, <<8491, 8491, 1, -8262>>, <<8498, 8498, 1, 28>>, <<8544, 8559, 1, 16>>,
       <<8579, 8579, 1, 1>>, <<9398, 9423, 1, 26>>, <<11264, 11311, 1, 48>>, <<11360, 11360, 1, 1>>,
       <<11362, 11362, 1, -10743>>, <<11363, 11363, 1, -3814>>, <<11364, 11364, 1, -10727>>, <<11367, 11371, 2, 1>>,
       <<11373, 11373, 1, -10780>>, <<11374, 11374, 1, -10749>>, <<11375, 11375, 1, -10783>>, <<11376, 11376, 1, -10782>>,
       <<11378, 11378, 1, 1>>, <<11381, 11381, 1, 1>>, <<11390, 11391, 1, -10815>>, <<11392, 11490, 2, 1>>,
       <<11499, 11501, 2, 1>>, <<11506, 11506, 1, 1>>, <<42560, 42604, 2, 1>>, <<42624, 42650, 2, 1>>,
       <<42786, 42798, 2, 1>>, <<42802, 42862, 2, 1>>, <<42873, 42875, 2, 1>>, <<42877, 42877, 1, -35332>>,
       <<42878, 42886, 2, 1>>, <<42891, 42891, 1, 1>>, <<42893, 42893, 1, -42280>>, <<42896, 42898, 2, 1>>,
       <<42902, 42920, 2, 1>>, <<42922, 42922, 1, -42308>>, <<42923, 42923, 1, -42319>>, <<42924, 42924, 1, -42315>>,
       <<42925, 42925, 1, -42305>>, <<42926, 42926, 1, -42308>>, <<42928, 42928, 1, -42258>>, <<42929, 42929, 1, -42282>>,
       <<42930, 42930, 1, -42261>>, <<42931, 42931, 1, 928>>, <<42932, 42946, 2, 1>>, <<42948, 42948, 1, -48>>,
       <<42949, 42949, 1, -42307>>, <<42950, 42950, 1, -35384>>, <<42951, 42953, 2, 1>>, <<42960, 42960, 1, 1>>,
       <<42966, 42968, 2, 1>>, <<42997, 42997, 1, 1>>, <<65313, 65338, 1, 32>>, <<66560, 66599, 1, 40>>,
       <<66736, 66771, 1, 40>>, <<66928, 66938, 1, 39>>, <<66940, 66954, 1, 39>>, <<66956, 66962, 1, 39>>,
       <<66964, 66965, 1, 39>>, <<68736, 68786, 1, 64>>, <<71840, 71871, 1, 32>>, <<93760, 93791, 1, 32>>,
       <<125184, 125217, 1, 34>> >>

\* << first, last >>: the cased code points that are not case-ignorable.
CasedRanges ==
    << <<65, 90>>, <<97, 122>>, <<170, 170>>, <<181, 181>>, <<186, 186>>, <<192, 214>>,
       <<216, 246>>, <<248, 442>>, <<444, 447>>, <<452, 659>>, <<661, 687>>, <<880, 883>>,
       <<886, 887>>, <<891, 893>>, <<895, 895>>, <<902, 902>>, <<904, 906>>, <<908, 908>>,
       <<910, 929>>, <<931, 1013>>, <<1015, 1153>>, <<1162, 1327>>, <<1329, 1366>>, <<1376, 1416>>,
       <<4256, 4293>>, <<4295, 4295>>, <<4301, 4301>>, <<4304, 4346>>, <<4349, 4351>>, <<5024, 5109>>,
       <<5112, 5117>>, <<7296, 7304>>, <<7312, 7354>>, <<7357, 7359>>, <<7424, 7467>>, <<7531, 7543>>,
       <<7545, 7578>>, <<7680, 7957>>, <<7960, 7965>>, <<7968, 8005>>, <<8008, 8013>>, <<8016, 8023>>,
       <<8025, 8025>>, <<8027, 8027>>, <<8029, 8029>>, <<8031, 8061>>, <<8064, 8116>>, <<8118, 8124>>,
       <<8126, 8126>>, <<8130, 8132>>, <<8134, 8140>>, <<8144, 8147>>, <<8150, 8155>>, <<8160, 8172>>,
       <<8178, 8180>>, <<8182, 8188>>, <<8450, 8450>>, <<8455, 8455>>, <<8458, 8467>>, <<8469, 8469>>,
       <<8473, 8477>>, <<8484, 8484>>, <<8486, 8486>>, <<8488, 8488>>, <<8490, 8493>>, <<8495, 8500>>,
       <<8505, 8505>>, <<8508, 8511>>, <<8517, 8521>>, <<8526, 8526>>, <<8544, 8575>>, <<8579, 8580>>,
       <<9398, 9449>>, <<11264, 11387>>, <<11390, 11492>>, <<11499, 11502>>, <<11506, 11507>>, <<11520, 11557>>,
       <<11559, 11559>>, <<11565, 11565>>, <<42560, 42605>>, <<42624, 42651>>, <<42786, 42863>>, <<42865, 42887>>,
       <<42891, 42894>>, <<42896, 42954>>, <<42960, 42961>>, <<42963, 42963>>, <<42965, 42969>>, <<42997, 42998>>,
       <<43002, 43002>>, <<43824, 43866>>, <<43872, 43880>>, <<43888, 43967>>, <<64256, 64262>>, <<64275, 64279>>,
       <<65313, 65338>>, <<65345, 65370>>, <<66560, 66639>>, <<66736, 66771>>, <<66776, 66811>>, <<66928, 66938>>,
       <<66940, 66954>>, <<66956, 66962>>, <<66964, 66965>>, <<66967, 66977>>, <<66979, 66993>>, <<66995, 67001>>,
       <<67003, 67004>>, <<68736, 68786>>, <<68800, 68850>>, <<71840, 71903>>, <<93760, 93823>>, <<119808, 119892>>,
       <<119894, 119964>>, <<119966, 119967>>, <<119970, 119970>>, <<119973, 119974>>, <<119977, 119980>>, <<119982, 119993>>,
       <<119995, 119995>>, <<119997, 120003>>, <<120005, 120069>>, <<120071, 120074>>, <<120077, 120084>>, <<120086, 120092>>,
       <<120094, 120121>>, <<120123, 120126>>, <<120128, 120132>>, <<120134, 120134>>, <<120138, 120144>>, <<120146, 120485>>,
       <<120488, 120512>>, <<120514, 120538>>, <<120540, 120570>>, <<120572, 120596>>, <<120598, 120628>>, <<120630, 120654>>,
       <<120656, 120686>>, <<120688, 120712>>, <<120714, 120744>>, <<120746, 120770>>, <<120772, 120779>>, <<122624, 122633>>,
       <<122635, 122654>>, <<125184, 125251>>, <<127280, 127305>>, <<127312, 127337>>, <<127344, 127369>> >>

\* << first, last >>: the case-ignorable code points.
CaseIgnorableRanges ==
    << <<39, 39>>, <<46, 46>>, <<58, 58>>, <<94, 94>>, <<96, 96>>, <<168, 168>>,
       <<173, 173>>, <<175, 175>>, <<180, 180>>, <<183, 184>>, <<688, 879>>, <<884, 885>>,
       <<890, 890>>, <<900, 901>>, <<903, 903>>, <<1155, 1161>>, <<1369, 1369>>, <<1375, 1375>>,
       <<1425, 1469>>, <<1471, 1471>>, <<1473, 1474>>, <<1476, 1477>>, <<1479, 1479>>, <<1524, 1524>>,
       <<1536, 1541>>, <<1552, 1562>>, <<1564, 1564>>, <<1600, 1600>>, <<1611, 1631>>, <<1648, 1648>>,
       <<1750, 1757>>, <<1759, 1768>>, <<1770, 1773>>, <<1807, 1807>>, <<1809, 1809>>, <<1840, 1866>>,
       <<1958, 1968>>, <<2027, 2037>>, <<2042, 2042>>, <<2045, 2045>>, <<2070, 2093>>, <<2137, 2139>>,
       <<2184, 2184>>, <<2192, 2193>>, <<2200, 2207>>, <<2249, 2306>>, <<2362, 2362>>, <<2364, 2364>>,
       <<2369, 2376>>, <<2381, 2381>>, <<2385, 2391>>, <<2402, 2403>>, <<2417, 2417>>, <<2433, 2433>>,
       <<2492, 2492>>, <<2497, 2500>>, <<2509, 2509>>, <<2530, 2531>>, <<2558, 2558>>, <<2561, 2562>>,
       <<2620, 2620>>, <<2625, 2626>>, <<2631, 2632>>, <<2635, 2637>>, <<2641, 2641>>, <<2672, 2673>>,
       <<2677, 2677>>, <<2689, 2690>>, <<2748, 2748>>, <<2753, 2757>>, <<2759, 2760>>, <<2765, 2765>>,
       <<2786, 2787>>, <<2810, 2815>>, <<2817, 2817>>, <<2876, 2876>>, <<2879, 2879>>, <<2881, 2884>>,
       <<2893, 2893>>, <<2901, 2902>>, <<2914, 2915>>, <<2946, 2946>>, <<3008, 3008>>, <<3021, 3021>>,
       <<3072, 3072>>, <<3076, 3076>>, <<3132, 3132>>, <<3134, 3136>>, <<3142, 3144>>, <<3146, 3149>>,
       <<3157, 3158>>, <<3170, 3171>>, <<3201, 3201>>, <<3260, 3260>>, <<3263, 3263>>, <<3270, 3270>>,
       <<3276, 3277>>, <<3298, 3299>>, <<3328, 3329>>, <<3387, 3388>>, <<3393, 3396>>, <<3405, 3405>>,
       <<3426, 3427>>, <<3457, 3457>>, <<3530, 3530>>, <<3538, 3540>>, <<3542, 3542>>, <<3633, 3633>>,
       <<3636, 3642>>, <<3654, 3662>>, <<3761, 3761>>, <<3764, 3772>>, <<3782, 3782>>, <<3784, 3789>>,
       <<3864, 3865>>, <<3893, 3893>>, <<3895, 3895>>, <<3897, 3897>>, <<3953, 3966>>, <<3968, 3972>>,
       <<3974, 3975>>, <<3981, 3991>>, <<3993, 4028>>, <<4038, 4038>>, <<4141, 4144>>, <<4146, 4151>>,
       <<4153, 4154>>, <<4157, 4158>>, <<4184, 4185>>, <<4190, 4192>>, <<4209, 4212>>, <<4226, 4226>>,
       <<4229, 4230>>, <<4237, 4237>>, <<4253, 4253>>, <<4348, 4348>>, <<4957, 4959>>, <<5906, 5908>>,
       <<5938, 5939>>, <<5970, 5971>>, <<6002, 6003>>, <<6068, 6069>>, <<6071, 6077>>, <<6086, 6086>>,
       <<6089, 6099>>, <<6103, 6103>>, <<6109, 6109>>, <<6155, 6159>>, <<6211, 6211>>, <<6277, 6278>>,
       <<6313, 6313>>, <<6432, 6434>>, <<6439, 6440>>, <<6450, 6450>>, <<6457, 6459>>, <<6679, 6680>>,
       <<6683, 6683>>, <<6742, 6742>>, <<6744, 6750>>, <<6752, 6752>>, <<6754, 6754>>, <<6757, 6764>>,
       <<6771, 6780>>, <<6783, 6783>>, <<6823, 6823>>, <<6832, 6862>>, <<6912, 6915>>, <<6964, 6964>>,
       <<6966, 6970>>, <<6972, 6972>>, <<6978, 6978>>, <<7019, 7027>>, <<7040, 7041>>, <<7074, 7077>>,
       <<7080, 7081>>, <<7083, 7085>>, <<7142, 7142>>, <<7144, 7145>>, <<7149, 7149>>, <<7151, 7153>>,
       <<7212, 7219>>, <<7222, 7223>>, <<7288, 7293>>, <<7376, 7378>>, <<7380, 7392>>, <<7394, 7400>>,
       <<7405, 7405>>, <<7412, 7412>>, <<7416, 7417>>, <<7468, 7530>>, <<7544, 7544>>, <<7579, 7679>>,
       <<8125, 8125>>, <<8127, 8129>>, <<8141, 8143>>, <<8157, 8159>>, <<8173, 8175>>, <<8189, 8190>>,
       <<8203, 8207>>, <<8216, 8217>>, <<8228, 8228>>, <<8231, 8231>>, <<8234, 8238>>, <<8288, 8292>>,
       <<8294, 8303>>, <<8305, 8305>>, <<8319, 8319>>, <<8336, 8348>>, <<8400, 8432>>, <<11388, 11389>>,
       <<11503, 11505>>, <<11631, 11631>>, <<11647, 11647>>, <<11744, 11775>>, <<11823, 11823>>, <<12293, 12293>>,
       <<12330, 12333>>, <<12337, 12341>>, <<12347, 12347>>, <<12441, 12446>>, <<12540, 12542>>, <<40981, 40981>>,
       <<42232, 42237>>, <<42508, 42508>>, <<42607, 42610>>, <<42612, 42621>>, <<42623, 42623>>, <<42652, 42655>>,
       <<42736, 42737>>, <<42752, 42785>>, <<42864, 42864>>, <<42888, 42890>>, <<42994, 42996>>, <<43000, 43001>>,
       <<43010, 43010>>, <<43014, 43014>>, <<43019, 43019>>, <<43045, 43046>>, <<43052, 43052>>, <<43204, 43205>>,
       <<43232, 43249>>, <<43263, 43263>>, <<43302, 43309>>, <<43335, 43345>>, <<43392, 43394>>, <<43443, 43443>>,
       <<43446, 43449>>, <<43452, 43453>>, <<43471, 43471>>, <<43493, 43494>>, <<43561, 43566>>, <<43569, 43570>>,
       <<43573, 43574>>, <<43587, 43587>>, <<43596, 43596>>, <<43632, 43632>>, <<43644, 43644>>, <<43696, 43696>>,
       <<43698, 43700>>, <<43703, 43704>>, <<43710, 43711>>, <<43713, 43713>>, <<43741, 43741>>, <<43756, 43757>>,
       <<43763, 43764>>, <<43766, 43766>>, <<43867, 43871>>, <<43881, 43883>>, <<44005, 44005>>, <<44008, 44008>>,
       <<44013, 44013>>, <<64286, 64286>>, <<64434, 64450>>, <<65024, 65039>>, <<65043, 65043>>, <<65056, 65071>>,
       <<65106, 65106>>, <<65109, 65109>>, <<65279, 65279>>, <<65287, 65287>>, <<65294, 65294>>, <<65306, 65306>>,
       <<65342, 65342>>, <<65344, 65344>>, <<65392, 65392>>, <<65438, 65439>>, <<65507, 65507>>, <<65529, 65531>>,
       <<66045, 66045>>, <<66272, 66272>>, <<66422, 66426>>, <<67456, 67461>>, <<67463, 67504>>, <<67506, 67514>>,
       <<68097, 68099>>, <<68101, 68102>>, <<68108, 68111>>, <<68152, 68154>>, <<68159, 68159>>, <<68325, 68326>>,
       <<68900, 68903>>, <<69291, 69292>>, <<69446, 69456>>, <<69506, 69509>>, <<69633, 69633>>, <<69688, 69702>>,
       <<69744, 69744>>, <<69747, 69748>>, <<69759, 69761>>, <<69811, 69814>>, <<69817, 69818>>, <<69821, 69821>>,
       <<69826, 69826>>, <<69837, 69837>>, <<69888, 69890>>, <<69927, 69931>>, <<69933, 69940>>, <<70003, 70003>>,
       <<70016, 70017>>, <<70070, 70078>>, <<70089, 70092>>, <<70095, 70095>>, <<70191, 70193>>, <<70196, 70196>>,
       <<70198, 70199>>, <<70206, 70206>>, <<70367, 70367>>, <<70371, 70378>>, <<70400, 70401>>, <<70459, 70460>>,
       <<70464, 70464>>, <<70502, 70508>>, <<70512, 70516>>, <<70712, 70719>>, <<70722, 70724>>, <<70726, 70726>>,
       <<70750, 70750>>, <<70835, 70840>>, <<70842, 70842>>, <<70847, 70848>>, <<70850, 70851>>, <<71090, 71093>>,
       <<71100, 71101>>, <<71103, 71104>>, <<71132, 71133>>, <<71219, 71226>>, <<71229, 71229>>, <<71231, 71232>>,
       <<71339, 71339>>, <<71341, 71341>>, <<71344, 71349>>, <<71351, 71351>>, <<71453, 71455>>, <<71458, 71461>>,
       <<71463, 71467>>, <<71727, 71735>>, <<71737, 71738>>, <<71995, 71996>>, <<71998, 71998>>, <<72003, 72003>>,
       <<72148, 72151>>, <<72154, 72155>>, <<72160, 72160>>, <<72193, 72202>>, <<72243, 72248>>, <<72251, 72254>>,
       <<72263, 72263>>, <<72273, 72278>>, <<72281, 72283>>, <<72330, 72342>>, <<72344, 72345>>, <<72752, 72758>>,
       <<72760, 72765>>, <<72767, 72767>>, <<72850, 72871>>, <<72874, 72880>>, <<72882, 72883>>, <<72885, 72886>>,
       <<73009, 73014>>, <<73018, 73018>>, <<73020, 73021>>, <<73023, 73029>>, <<73031, 73031>>, <<73104, 73105>>,
       <<73109, 73109>>, <<73111, 73111>>, <<73459, 73460>>, <<78896, 78904>>, <<92912, 92916>>, <<92976, 92982>>,
       <<92992, 92995>>, <<94031, 94031>>, <<94095, 94111>>, <<94176, 94177>>, <<94179, 94180>>, <<110576, 110579>>,
       <<110581, 110587>>, <<110589, 110590>>, <<113821, 113822>>, <<113824, 113827>>, <<118528, 118573>>, <<118576, 118598>>,
       <<119143, 119145>>, <<119155, 119170>>, <<119173, 119179>>, <<119210, 119213>>, <<119362, 119364>>, <<121344, 121398>>,
       <<121403, 121452>>, <<121461, 121461>>, <<121476, 121476>>, <<121499, 121503>>, <<121505, 121519>>, <<122880, 122886>>,
       <<122888, 122904>>, <<122907, 122913>>, <<122915, 122916>>, <<122918, 122922>>, <<123184, 123197>>, <<123566, 123566>>,
       <<123628, 123631>>, <<125136, 125142>>, <<125252, 125259>>, <<127995, 127999>>, <<917505, 917505>>, <<917536, 917631>>,
       <<917760, 917999>> >>

InRanges(c, ranges) == \E r \in 1..Len(ranges) : ranges[r][1] <= c /\ c <= ranges[r][2]

\* chr(c).lower(): the code points of the lowercase form of one code point.
\* U+0130 is the only code point whose form has two.  ASCII and the Hangul
\* syllables (no cased code point among them) are answered without the table.
LowerChar(c) ==
    IF c < 128 THEN << IF c >= 65 /\ c <= 90 THEN c + 32 ELSE c >>
    ELSE IF c >= 44032 /\ c <= 55203 THEN << c >>
    ELSE IF c = 304 THEN << 105, 775 >>
    ELSE LET hits == {r \in 1..Len(LowerRanges) :
                         /\ LowerRanges[r][1] <= c
                         /\ c <= LowerRanges[r][2]
                         /\ (c - LowerRanges[r][1]) % LowerRanges[r][3] = 0}
         IN  IF hits = {} THEN << c >>
             ELSE << c + LowerRanges[CHOOSE r \in hits : TRUE][4] >>

\* str.lower() turns U+03A3 into the final sigma U+03C2 when the nearest code
\* point before it that is not case-ignorable is cased and the nearest such
\* code point after it, if any, is not cased.
FinalSigma(s, i) ==
    LET before == {j \in 1..(i - 1) : ~InRanges(s[j], CaseIgnorableRanges)}
        after == {j \in (i + 1)..Len(s) : ~InRanges(s[j], CaseIgnorableRanges)}
    IN  /\ before # {}
        /\ InRanges(s[CHOOSE j \in before : \A k \in before : k <= j], CasedRanges)
        /\ after = {} \/
               ~InRanges(s[CHOOSE j \in after : \A k \in after : j <= k], CasedRanges)

LowerAt(s, i) ==
    IF s[i] = 931 THEN << IF FinalSigma(s, i) THEN 962 ELSE 963 >>
    ELSE LowerChar(s[i])

\* str.lower()
Lower(s) ==
    IF \A i \in 1..Len(s) : s[i] # 931 /\ s[i] # 304
    THEN [i \in 1..Len(s) |-> LowerChar(s[i])[1]]
    ELSE LET low[i \in 0..Len(s)] == IF i = 0 THEN << >> ELSE low[i - 1] \o LowerAt(s, i)
         IN  low[Len(s)]

\* Python's `w in s` for strings.
Contains(s, w) ==
    \E i \in 0..(Len(s) - Len(w)) : \A j \in 1..Len(w) : s[i + j] = w[j]

\* any(word in s for word in words)
ContainsAny(s, words) == \E k \in 1..Len(words) : Contains(s, words[k])

\* re with IGNORECASE: the code point c of the text matches the pattern
\* character t.  The pattern characters are those of the keyword lists:
\* lowercase ASCII letters, space and hyphen.  Besides its upper-case form a
\* letter matches the code points the re module folds to it: U+0130 and U+0131
\* for i, U+212A for k, U+017F for s.
IgnoreCaseEq(c, t) ==
    \/ c = t
    \/ t >= 97 /\ t <= 122 /\ c = t - 32
    \/ t = 105 /\ (c = 304 \/ c = 305)
    \/ t = 107 /\ c = 8490
    \/ t = 115 /\ c = 383

\* re.search(term, s, re.IGNORECASE) for a term without metacharacters
SearchIgnoreCase(s, term) ==
    \E i \in 0..(Len(s) - Len(term)) : \A j \in 1..Len(term) : IgnoreCaseEq(s[i + j], term[j])

\* the decimal digits of n >= 0
RECURSIVE Digits(_)
Digits(n) == IF n < 10 THEN << 48 + n >> ELSE Digits(n \div 10) \o << 48 + (n % 10) >>

\* str(n) for an integer
StrInt(n) == IF n < 0 THEN << 45 >> \o Digits(0 - n) ELSE Digits(n)

----------------------------------------------------------------------------
(* Static tables of coffee_tools.py *)

check_keywords ==
    << <<44592, 51456>>,   \* U+AE30 U+C900
       <<50612, 46523, 44172>>,   \* U+C5B4 U+B5BB U+AC8C
       <<50896, 47532>>,   \* U+C6D0 U+B9AC
       <<50508, 47140, 51480>>,   \* U+C54C U+B824 U+C918
       <<49444, 47749>>,   \* U+C124 U+BA85
       <<47196, 51649>>,   \* U+B85C U+C9C1
       <<48516, 47448>> >>   \* U+BD84 U+B958

acidic_words ==
    << <<49328, 48120>>,   \* U+C0B0 U+BBF8
       <<49888, 47579>>,   \* U+C2E0 U+B9DB
       <<49345, 53372>>,   \* U+C0C1 U+D07C
       <<44284, 51068>>,   \* U+ACFC U+C77C
       <<54868, 49324>>,   \* U+D654 U+C0AC
       <<44867>>,   \* U+AF43
       <<54540, 47196, 47092>>,   \* U+D50C U+B85C U+B7F4
       <<54693, 44592>>,   \* U+D5A5 U+AE30
       <<102, 108, 111, 114, 97, 108>>,   \* floral
       <<48288, 47532>>,   \* U+BCA0 U+B9AC
       <<49884, 53944, 47084, 49828>>,   \* U+C2DC U+D2B8 U+B7EC U+C2A4
       <<102, 114, 117, 105, 116>> >>   \* fruit

floral_words ==
    << <<44867>>,   \* U+AF43
       <<54540, 47196, 47092>>,   \* U+D50C U+B85C U+B7F4
       <<51088, 49828, 48124>>,   \* U+C790 U+C2A4 U+BBFC
       <<54693, 44592>>,   \* U+D5A5 U+AE30
       <<102, 108, 111, 114, 97, 108>> >>   \* floral

fruity_words ==
    << <<44284, 51068>>,   \* U+ACFC U+C77C
       <<48288, 47532>>,   \* U+BCA0 U+B9AC
       <<49884, 53944, 47084, 49828>>,   \* U+C2DC U+D2B8 U+B7EC U+C2A4
       <<47112, 47788>>,   \* U+B808 U+BAAC
       <<49324, 44284>>,   \* U+C0AC U+ACFC
       <<102, 114, 117, 105, 116>> >>   \* fruit

nutty_words ==
    << <<44256, 49548>>,   \* U+ACE0 U+C18C
       <<44204, 44284>>,   \* U+ACAC U+ACFC
       <<44396, 49688>>,   \* U+AD6C U+C218
       <<47925, 51649>>,   \* U+BB35 U+C9C1
       <<52488, 53084, 47551>>,   \* U+CD08 U+CF5C U+B9BF
       <<48148, 46356>>,   \* U+BC14 U+B514
       <<50420, 47579>> >>   \* U+C4F4 U+B9DB

acidic_exclude_keywords ==
    << <<101, 97, 114, 116, 104, 121>>,   \* earthy
       <<116, 111, 98, 97, 99, 99, 111>>,   \* tobacco
       <<115, 109, 111, 107, 101>>,   \* smoke
       <<97, 115, 104>>,   \* ash
       <<108, 101, 97, 116, 104, 101, 114>>,   \* leather
       <<109, 117, 115, 116, 121>>,   \* musty
       <<114, 117, 98, 98, 101, 114>> >>   \* rubber

floral_keywords ==
    << <<102, 108, 111, 114, 97, 108>>,   \* floral
       <<106, 97, 115, 109, 105, 110, 101>>,   \* jasmine
       <<114, 111, 115, 101>>,   \* rose
       <<108, 105, 108, 121>>,   \* lily
       <<98, 108, 111, 115, 115, 111, 109>>,   \* blossom
       <<108, 97, 118, 101, 110, 100, 101, 114>>,   \* lavender
       <<116, 101, 97, 45, 108, 105, 107, 101>>,   \* tea-like
       <<108, 101, 109, 111, 110, 103, 114, 97, 115, 115>>,   \* lemongrass
       <<109, 97, 103, 110, 111, 108, 105, 97>>,   \* magnolia
       <<104, 105, 98, 105, 115, 99, 117, 115>> >>   \* hibiscus

fruity_keywords ==
    << <<102, 114, 117, 105, 116>>,   \* fruit
       <<98, 101, 114, 114, 121>>,   \* berry
       <<99, 105, 116, 114, 117, 115>>,   \* citrus
       <<108, 101, 109, 111, 110>>,   \* lemon
       <<111, 114, 97, 110, 103, 101>>,   \* orange
       <<97, 112, 112, 108, 101>>,   \* apple
       <<103, 114, 97, 112, 101>>,   \* grape
       <<112, 101, 97, 99, 104>>,   \* peach
       <<115, 116, 111, 110, 101, 32, 102, 114, 117, 105, 116>>,   \* stone fruit
       <<116, 114, 111, 112, 105, 99, 97, 108>> >>   \* tropical

general_acidic_keywords ==
    << <<97, 99, 105, 100>>,   \* acid
       <<102, 114, 117, 105, 116>>,   \* fruit
       <<102, 108, 111, 114, 97, 108>>,   \* floral
       <<98, 114, 105, 103, 104, 116>> >>   \* bright

nutty_exclude_keywords ==
    << <<98, 114, 105, 103, 104, 116>>,   \* bright
       <<116, 97, 114, 116>>,   \* tart
       <<99, 105, 116, 114, 117, 115>>,   \* citrus
       <<108, 101, 109, 111, 110>>,   \* lemon
       <<108, 105, 109, 101>>,   \* lime
       <<103, 114, 97, 112, 101, 102, 114, 117, 105, 116>>,   \* grapefruit
       <<119, 105, 110, 101>>,   \* wine
       <<115, 111, 117, 114>>,   \* sour
       <<118, 105, 110, 101, 103, 97, 114>> >>   \* vinegar

nutty_keywords ==
    << <<110, 117, 116>>,   \* nut
       <<99, 104, 111, 99, 111, 108, 97, 116, 101>>,   \* chocolate
       <<99, 111, 99, 111, 97>>,   \* cocoa
       <<97, 108, 109, 111, 110, 100>>,   \* almond
       <<119, 97, 108, 110, 117, 116>>,   \* walnut
       <<115, 97, 118, 111, 114, 121>>,   \* savory
       <<99, 97, 114, 97, 109, 101, 108>>,   \* caramel
       <<116, 111, 102, 102, 101, 101>>,   \* toffee
       <<98, 111, 100, 121>> >>   \* body

MAJOR_COUNTRIES ==
    << "Ethiopia",
       "Kenya",
       "Colombia",
       "Brazil",
       "Panama",
       "Guatemala",
       "Costa Rica",
       "Indonesia",
       "Honduras",
       "El Salvador",
       "Peru",
       "Rwanda",
       "Mexico",
       "Uganda",
       "Tanzania",
       "Nicaragua",
       "Yemen",
       "Sumatra",
       "India",
       "Vietnam" >>

Chars(country) ==
    CASE country = "Ethiopia" -> <<69, 116, 104, 105, 111, 112, 105, 97>>
      [] country = "Kenya" -> <<75, 101, 110, 121, 97>>
      [] country = "Colombia" -> <<67, 111, 108, 111, 109, 98, 105, 97>>
      [] country = "Brazil" -> <<66, 114, 97, 122, 105, 108>>
      [] country = "Panama" -> <<80, 97, 110, 97, 109, 97>>
      [] country = "Guatemala" -> <<71, 117, 97, 116, 101, 109, 97, 108, 97>>
      [] country = "Costa Rica" -> <<67, 111, 115, 116, 97, 32, 82, 105, 99, 97>>
      [] country = "Indonesia" -> <<73, 110, 100, 111, 110, 101, 115, 105, 97>>
      [] country = "Honduras" -> <<72, 111, 110, 100, 117, 114, 97, 115>>
      [] country = "El Salvador" -> <<69, 108, 32, 83, 97, 108, 118, 97, 100, 111, 114>>
      [] country = "Peru" -> <<80, 101, 114, 117>>
      [] country = "Rwanda" -> <<82, 119, 97, 110, 100, 97>>
      [] country = "Mexico" -> <<77, 101, 120, 105, 99, 111>>
      [] country = "Uganda" -> <<85, 103, 97, 110, 100, 97>>
      [] country = "Tanzania" -> <<84, 97, 110, 122, 97, 110, 105, 97>>
      [] country = "Nicaragua" -> <<78, 105, 99, 97, 114, 97, 103, 117, 97>>
      [] country = "Yemen" -> <<89, 101, 109, 101, 110>>
      [] country = "Sumatra" -> <<83, 117, 109, 97, 116, 114, 97>>
      [] country = "India" -> <<73, 110, 100, 105, 97>>
      [] country = "Vietnam" -> <<86, 105, 101, 116, 110, 97, 109>>

----------------------------------------------------------------------------
(* Catalog loader: load_data_once *)

\* One cell of the CSV as pandas reads it: a number, a non-numeric text, or
\* a missing value (NaN).
Num(n) == [k |-> "num", v |-> n, s |-> << >>]
Txt(s) == [k |-> "text", v |-> 0, s |-> s]
NaN == [k |-> "nan", v |-> 0, s |-> << >>]

NumericCols == {"acid", "body", "flavor", "aftertaste", "aroma", "rating"}
AllCols == {"name", "origin", "desc_1"} \cup NumericCols

\* The CSV file: whether it exists, the first of the codecs utf-8, cp949,
\* latin1 that decodes its bytes, and its columns and rows as that codec
\* reads them.
Encodings == << "utf-8", "cp949", "latin1" >>

AbsentFile == [exists |-> FALSE, encoding |-> "utf-8", cols |-> {}, rows |-> << >>]

\* load_data_once returns None
None == [ok |-> FALSE, cols |-> {}, rows |-> << >>]

\* pd.read_csv gives the desc_1 column the dtype object when a cell of it is
\* not numeric, float64 when every cell is a number or missing and one is
\* missing, int64 when every cell is a number.
desc_dtype(f) ==
    IF \E i \in 1..Len(f.rows) : f.rows[i].desc_1.k = "text" THEN "object"
    ELSE IF \E i \in 1..Len(f.rows) : f.rows[i].desc_1.k = "nan" THEN "float64"
    ELSE "int64"

\* df['desc_1'].fillna('').astype(str): a missing cell becomes '', a text
\* stays, a number becomes its digits, followed by '.0' in a float64 column.
fillna_str(f, cell) ==
    IF cell.k = "text" THEN cell.s
    ELSE IF cell.k = "nan" THEN << >>
    ELSE IF desc_dtype(f) = "float64" THEN StrInt(cell.v) \o << 46, 48 >>
    ELSE StrInt(cell.v)

\* pd.to_numeric(df[col], errors='coerce').fillna(0)
to_numeric_fillna(cell) == IF cell.k = "num" THEN cell.v ELSE 0

\* for col in cols_to_numeric: if col in df.columns: df[col] = ...
\* (the value of a column that is not in the frame is never read: every read
\* below is guarded by the frame's cols)
numeric_col(f, r, col) == IF col \in f.cols THEN to_numeric_fillna(r[col]) ELSE 0

extract_country(origin_text) ==
    IF origin_text.k # "text" THEN "Other"
    ELSE LET low == Lower(origin_text.s)
             hits == {i \in 1..Len(MAJOR_COUNTRIES) :
                         Contains(low, Lower(Chars(MAJOR_COUNTRIES[i])))}
         IN  IF hits = {} THEN "Other"
             ELSE MAJOR_COUNTRIES[CHOOSE i \in hits : \A j \in hits : i <= j]

LoadRow(f, r) ==
    [name       |-> r.name,
     origin     |-> r.origin,
     desc_1     |-> fillna_str(f, r.desc_1),
     acid       |-> numeric_col(f, r, "acid"),
     body       |-> numeric_col(f, r, "body"),
     flavor     |-> numeric_col(f, r, "flavor"),
     aftertaste |-> numeric_col(f, r, "aftertaste"),
     aroma      |-> numeric_col(f, r, "aroma"),
     rating     |-> numeric_col(f, r, "rating"),
     country    |-> extract_country(r.origin)]

\* None when the file is missing, or when df['desc_1'] / df['origin'] raises
\* KeyError inside the try block; otherwise the frame.
load_data_once(f) ==
    IF ~f.exists THEN None
    ELSE IF "desc_1" \notin f.cols \/ "origin" \notin f.cols THEN None
    ELSE [ok   |-> TRUE,
          cols |-> f.cols \cup {"country"},
          rows |-> [i \in 1..Len(f.rows) |-> LoadRow(f, f.rows[i])]]

\* Executions of pd.read_csv in one call of load_data_once: none when the
\* os.path.exists check fails, else one per codec tried, up to the first that
\* decodes the file (lines 22-28).
ReadsOf(f) ==
    IF ~f.exists THEN 0
    ELSE CHOOSE n \in 1..Len(Encodings) : Encodings[n] = f.encoding

----------------------------------------------------------------------------
(* Outcomes of get_coffee_recommendations *)

NoResult == [type |-> "none"]
InfoOutcome == [type |-> "info", content |-> "criteria"]
ErrorOutcome == [type |-> "error", content |-> "guidance"]
DataMissing == [type |-> "str", content |-> "Error: data file not found"]
NoMatch == [type |-> "str", content |-> "no matching coffee"]
KeyError == [type |-> "raise", content |-> "KeyError"]

----------------------------------------------------------------------------
(* Preference classifier: lines 82-122 *)

Unclassified ==
    [target_type |-> "None", acid_op |-> "", exclude_keywords |-> << >>,
     keywords |-> << >>, priority_countries |-> << >>, flavor_desc |-> ""]

Acidic(tt, kw, label) ==
    [target_type |-> tt, acid_op |-> ">=9",
     exclude_keywords |-> acidic_exclude_keywords,
     keywords |-> kw,
     priority_countries |-> << "Ethiopia", "Panama", "Kenya" >>,
     flavor_desc |-> label]

Nutty ==
    [target_type |-> "nutty", acid_op |-> "<=8",
     exclude_keywords |-> nutty_exclude_keywords,
     keywords |-> nutty_keywords,
     priority_countries |-> << "Brazil", "Colombia", "Guatemala", "Indonesia", "India" >>,
     flavor_desc |-> "Low Acid, No Citrus"]

\* mutant of Classify: the fruit terms are tested before the floral terms
Classify_FruityFirst(pref_lower) ==
    IF ContainsAny(pref_lower, acidic_words) THEN
        IF ContainsAny(pref_lower, fruity_words)
        THEN Acidic("fruity", fruity_keywords, "Fruity & High Acid")
        ELSE IF ContainsAny(pref_lower, floral_words)
        THEN Acidic("floral", floral_keywords, "Floral & High Acid")
        ELSE Acidic("general_acidic", general_acidic_keywords, "High Acid, No Earthy")
    ELSE IF ContainsAny(pref_lower, nutty_words) THEN Nutty
    ELSE Unclassified

Classify(pref_lower) ==
    IF ContainsAny(pref_lower, acidic_words) THEN
        IF ContainsAny(pref_lower, floral_words)
        THEN Acidic("floral", floral_keywords, "Floral & High Acid")
        ELSE IF ContainsAny(pref_lower, fruity_words)
        THEN Acidic("fruity", fruity_keywords, "Fruity & High Acid")
        ELSE Acidic("general_acidic", general_acidic_keywords, "High Acid, No Earthy")
    ELSE IF ContainsAny(pref_lower, nutty_words) THEN Nutty
    ELSE Unclassified

\* mutant of IsCriteriaQuestion: the length test lets 15 characters through
IsCriteriaQuestion_UpTo15(pref) == ContainsAny(pref, check_keywords) /\ Len(pref) <= 15

\* the fail-safe of lines 73-76
IsCriteriaQuestion(pref) == ContainsAny(pref, check_keywords) /\ Len(pref) < 15

----------------------------------------------------------------------------
(* Filter pipeline: lines 92/112 and 124-133 *)

AcidFilter(rows, cat) ==
    SelectSeq(rows, LAMBDA r : IF cat.acid_op = ">=9" THEN r.acid >= 9 ELSE r.acid <= 8)

\* df['desc_1'].str.contains('a|b|...', case=False): the terms hold no regex
\* metacharacter, so the pattern matches when some term occurs, ignoring case
DescContains(r, terms) == \E k \in 1..Len(terms) : SearchIgnoreCase(r.desc_1, terms[k])

ExcludeFilter(rows, cat) ==
    IF cat.exclude_keywords = << >> THEN rows
    ELSE SelectSeq(rows, LAMBDA r : ~DescContains(r, cat.exclude_keywords))

KeywordFilter(rows, cat) ==
    IF cat.keywords = << >> THEN rows
    ELSE LET matching == SelectSeq(rows, LAMBDA r : DescContains(r, cat.keywords))
         IN  IF Len(matching) > 5 THEN matching ELSE rows

\* mutant of FilterPipeline: include terms are counted before the exclusion
FilterPipeline_KeywordsFirst(rows, cat) ==
    ExcludeFilter(KeywordFilter(AcidFilter(rows, cat), cat), cat)

FilterPipeline(rows, cat) == KeywordFilter(ExcludeFilter(AcidFilter(rows, cat), cat), cat)

----------------------------------------------------------------------------
(* Country selection and ranking: lines 138-177 *)

Countries(rows) == {rows[i].country : i \in 1..Len(rows)}

RowsOf(rows, country) == SelectSeq(rows, LAMBDA r : r.country = country)

RECURSIVE SumRatings(_)
SumRatings(rows) == IF rows = << >> THEN 0 ELSE Head(rows).rating + SumRatings(Tail(rows))

\* mean rating of a >= mean rating of b, over the filtered rows (both present)
MeanGE(rows, a, b) ==
    SumRatings(RowsOf(rows, a)) * Len(RowsOf(rows, b))
        >= SumRatings(RowsOf(rows, b)) * Len(RowsOf(rows, a))

\* lines 142-144
PrioritySelected(rows, cat) ==
    SelectSeq(cat.priority_countries, LAMBDA c : c \in Countries(rows))

Min2(a, b) == IF a <= b THEN a ELSE b

\* mutant of FillSelections: the means are sorted ascending
FillSelections_Ascending(rows, selected) ==
    IF Len(selected) >= 3 THEN {<< >>}
    ELSE LET cand == Countries(rows) \ ({selected[i] : i \in 1..Len(selected)} \cup {"Other"})
             k == Min2(3 - Len(selected), Cardinality(cand))
         IN  {s \in [1..k -> cand] :
                 /\ \A i, j \in 1..k : i # j => s[i] # s[j]
                 /\ \A i \in 1..k : \A j \in 1..k : i < j => MeanGE(rows, s[j], s[i])
                 /\ \A c \in cand : (\A i \in 1..k : s[i] # c) =>
                        \A i \in 1..k : MeanGE(rows, c, s[i])}

\* mutant of FillSelections: the loop does not stop at 3 countries
FillSelections_NoBreak(rows, selected) ==
    IF Len(selected) >= 3 THEN {<< >>}
    ELSE LET cand == Countries(rows) \ ({selected[i] : i \in 1..Len(selected)} \cup {"Other"})
             k == Cardinality(cand)
         IN  {s \in [1..k -> cand] :
                 /\ \A i, j \in 1..k : i # j => s[i] # s[j]
                 /\ \A i \in 1..k : \A j \in 1..k : i < j => MeanGE(rows, s[i], s[j])}

\* lines 146-152.  sort_values(ascending=False) uses pandas' default
\* kind='quicksort', which is not stable: countries of equal mean rating come
\* in an order the build decides.  Every order that is descending in the mean
\* is a possible outcome.
FillSelections(rows, selected) ==
    IF Len(selected) >= 3 THEN {<< >>}
    ELSE LET cand == Countries(rows) \ ({selected[i] : i \in 1..Len(selected)} \cup {"Other"})
             k == Min2(3 - Len(selected), Cardinality(cand))
         IN  {s \in [1..k -> cand] :
                 /\ \A i, j \in 1..k : i # j => s[i] # s[j]
                 /\ \A i \in 1..k : \A j \in 1..k : i < j => MeanGE(rows, s[i], s[j])
                 /\ \A c \in cand : (\A i \in 1..k : s[i] # c) =>
                        \A i \in 1..k : MeanGE(rows, s[i], c)}

Coffee(row) ==
    [name |-> row.name, rating |-> row.rating, desc |-> row.desc_1,
     aroma |-> row.aroma, acid |-> row.acid, body |-> row.body,
     flavor |-> row.flavor, aftertaste |-> row.aftertaste]

\* line 162: sort_values(by='rating', ascending=False).head(2), again with the
\* unstable default sort: among equal ratings any order is possible.
TopCoffees(rows, country) ==
    LET mine == RowsOf(rows, country)
        n == Len(mine)
        firstTwo == {p \in (1..n) \X (1..n) :
                        /\ p[1] # p[2]
                        /\ mine[p[1]].rating >= mine[p[2]].rating
                        /\ \A m \in 1..n : (m # p[1] /\ m # p[2]) =>
                               mine[m].rating <= mine[p[2]].rating}
    IN  IF n = 1 THEN {<< Coffee(mine[1]) >>}
        ELSE {<< Coffee(mine[p[1]]), Coffee(mine[p[2]]) >> : p \in firstTwo}

\* lines 161-177: one entry per selected country, in selection order
RECURSIVE CountryEntries(_, _)
CountryEntries(rows, selected) ==
    IF selected = << >> THEN {<< >>}
    ELSE {<< [country_name |-> Head(selected), coffees |-> top] >> \o rest :
             top \in TopCoffees(rows, Head(selected)),
             rest \in CountryEntries(rows, Tail(selected))}

\* the possible values of selected_countries at line 153
SelectedCountries(rows, cat) ==
    LET prio == PrioritySelected(rows, cat)
    IN  {prio \o fill : fill \in FillSelections(rows, prio)}

\* the columns row[...] reads at lines 166-176
CoffeeCols == {"name", "rating", "desc_1", "aroma", "acid", "body", "flavor", "aftertaste"}

\* lines 135-179 on the filtered rows: the possible return values
Recommendations(frame, rows, cat) ==
    IF rows = << >> THEN {NoMatch}
    ELSE IF "rating" \notin frame.cols THEN {KeyError}
    ELSE UNION {IF selected # << >> /\ ~(CoffeeCols \subseteq frame.cols) THEN {KeyError}
                ELSE {[type |-> "recommendation",
                       flavor_desc |-> cat.flavor_desc,
                       countries |-> entries] : entries \in CountryEntries(rows, selected)}
                : selected \in SelectedCountries(rows, cat)}

\* get_coffee_recommendations(preference) with the file as it is on disk: the
\* set of possible (return value, locals at return).
get_coffee_recommendations(pref, f) ==
    IF IsCriteriaQuestion(pref)
    THEN {[result |-> InfoOutcome, target_type |-> "None", df |-> << >>, reads |-> 0]}
    ELSE LET frame == load_data_once(f)
             cat == Classify(Lower(pref))
         IN  IF ~frame.ok
             THEN {[result |-> DataMissing, target_type |-> "None", df |-> << >>,
                    reads |-> ReadsOf(f)]}
             ELSE IF cat.target_type = "None"
             THEN {[result |-> ErrorOutcome, target_type |-> "None", df |-> frame.rows,
                    reads |-> ReadsOf(f)]}
             ELSE IF "acid" \notin frame.cols
             THEN {[result |-> KeyError,
                    target_type |-> IF cat.target_type = "nutty" THEN "nutty" ELSE "None",
                    df |-> frame.rows,
                    reads |-> ReadsOf(f)]}
             ELSE LET rows == FilterPipeline(frame.rows, cat)
                  IN  {[result |-> r, target_type |-> cat.target_type, df |-> rows,
                        reads |-> ReadsOf(f)] : r \in Recommendations(frame, rows, cat)}

----------------------------------------------------------------------------
(* Bounded inputs *)

MaxWords == 3            \* words per preference string
MaxFilterRecords == 7    \* rows of a catalog drawn from FilterPool
MaxSelectRecords == 4    \* rows of a catalog drawn from SelectPool
MaxClock == 17           \* seconds a recommend_coffee computation is followed for

\* The vocabulary preference strings are built from.
PrefWords ==
    << <<44592, 51456>>,   \* gijun 'criteria': a check_keywords word
       <<49328, 48120>>,   \* sanmi 'acidity': acidic only
       <<44867>>,   \* kkot 'flower': acidic and floral
       <<44284, 51068>>,   \* gwail 'fruit': acidic and fruity
       <<47112, 47788>>,   \* lemon: fruity, not an acidic trigger
       <<44256, 49548>>,   \* goso 'nutty'
       <<70, 76, 79, 82, 65, 76>>,   \* upper-case FLORAL
       <<52964, 54588, 47484, 32, 52628, 52380, 54644, 32, 51452, 49464, 50836>> >>   \* 'please recommend a coffee', 11 characters, no trigger

RECURSIVE Phrases(_)
Phrases(n) ==
    IF n = 0 THEN {<< >>}
    ELSE Phrases(n - 1) \cup
         {p \o PrefWords[w] : p \in Phrases(n - 1), w \in 1..Len(PrefWords)}

\* one preference per outcome of the classifier: floral, fruity,
\* general_acidic, nutty, unclassified
CategoryPrefs == {PrefWords[3], PrefWords[4], PrefWords[2], PrefWords[6], PrefWords[8]}

\* a raw CSV row; the name is set from the row's position in the file
RawRow(origin, desc, acid, rating) ==
    [name |-> 0, origin |-> origin, desc_1 |-> desc, acid |-> acid, body |-> Num(8),
     flavor |-> Num(9), aftertaste |-> Num(8), aroma |-> Num(9), rating |-> rating]

FilterPool ==
    << RawRow(Txt(<<66, 82, 65, 90, 73, 76>>), Txt(<<110, 117, 116>>), Num(8), Num(90)),   \* BRAZIL; 'nut'; acid 8; rating 90
       RawRow(Txt(<<66, 82, 65, 90, 73, 76>>), Txt(<<84, 97, 114, 116, 32, 110, 117, 116>>), Num(8), Num(92)),   \* BRAZIL; 'Tart nut'; acid 8; rating 92
       RawRow(Txt(<<80, 101, 114, 117>>), Txt(<<114, 111, 115, 101>>), Num(8), Num(91)),   \* Peru; 'rose'; acid 8; rating 91
       RawRow(Txt(<<69, 116, 104, 105, 111, 112, 105, 97>>), Txt(<<114, 111, 115, 101, 32, 110, 117, 116>>), Num(9), Num(95)),   \* Ethiopia; 'rose nut'; acid 9; rating 95
       RawRow(Txt(<<75, 101, 110, 121, 97>>), Txt(<<65, 115, 104, 32, 114, 111, 115, 101>>), Num(9), Num(93)),   \* Kenya; 'Ash rose'; acid 9; rating 93
       RawRow(Txt(<<72, 97, 119, 97, 105, 105>>), NaN, Num(9), Num(94)) >>   \* Hawaii; (no description); acid 9; rating 94 (country Other)

SelectPool ==
    << RawRow(Txt(<<66, 82, 65, 90, 73, 76>>), Txt(<<110, 117, 116>>), Num(8), Num(90)),   \* BRAZIL; 'nut'; acid 8; rating 90
       RawRow(Txt(<<66, 82, 65, 90, 73, 76>>), Txt(<<110, 117, 116>>), Num(8), Num(92)),   \* BRAZIL; 'nut'; acid 8; rating 92
       RawRow(Txt(<<67, 111, 108, 111, 109, 98, 105, 97>>), Txt(<<110, 117, 116>>), Num(8), Num(91)),   \* Colombia; 'nut'; acid 8; rating 91
       RawRow(Txt(<<71, 117, 97, 116, 101, 109, 97, 108, 97>>), Txt(<<110, 117, 116>>), Num(8), Num(90)),   \* Guatemala; 'nut'; acid 8; rating 90
       RawRow(Txt(<<73, 110, 100, 111, 110, 101, 115, 105, 97>>), Txt(<<110, 117, 116>>), Num(7), Num(90)),   \* Indonesia; 'nut'; acid 7; rating 90
       RawRow(Txt(<<73, 110, 100, 105, 97>>), Txt(<<110, 117, 116>>), Num(8), Num(90)),   \* India; 'nut'; acid 8; rating 90
       RawRow(Txt(<<75, 101, 110, 121, 97>>), Txt(<<110, 117, 116>>), Num(8), Num(95)),   \* Kenya; 'nut'; acid 8; rating 95
       RawRow(Txt(<<80, 101, 114, 117>>), Txt(<<110, 117, 116>>), Num(8), Num(93)),   \* Peru; 'nut'; acid 8; rating 93
       RawRow(Txt(<<69, 116, 104, 105, 111, 112, 105, 97>>), Txt(<<114, 111, 115, 101>>), Num(9), Num(95)),   \* Ethiopia; 'rose'; acid 9; rating 95
       RawRow(Txt(<<75, 101, 110, 121, 97>>), Txt(<<114, 111, 115, 101>>), Num(9), Num(93)),   \* Kenya; 'rose'; acid 9; rating 93
       RawRow(Txt(<<80, 101, 114, 117>>), Txt(<<114, 111, 115, 101>>), Num(10), Num(97)),   \* Peru; 'rose'; acid 10; rating 97
       RawRow(Txt(<<89, 101, 109, 101, 110>>), Txt(<<114, 111, 115, 101>>), Num(9), Num(94)),   \* Yemen; 'rose'; acid 9; rating 94
       RawRow(Txt(<<72, 97, 119, 97, 105, 105>>), Txt(<<114, 111, 115, 101>>), Num(9), Num(96)) >>   \* Hawaii; 'rose'; acid 9; rating 96 (country Other)

\* type sequences in pool order, of length len, over types lo..n
RECURSIVE SortedTypes(_, _, _)
SortedTypes(lo, n, len) ==
    IF len = 0 THEN {<< >>}
    ELSE UNION {{<< ty >> \o s : s \in SortedTypes(ty, n, len - 1)} : ty \in lo..n}

WellFormed(rows) == [exists |-> TRUE, encoding |-> "utf-8", cols |-> AllCols, rows |-> rows]

\* the file holding one row of each listed pool type, named 1, 2, ... in file order
Catalog(pool, types) ==
    WellFormed([i \in 1..Len(types) |-> [pool[types[i]] EXCEPT !.name = i]])

Catalogs(pool, maxlen) ==
    {Catalog(pool, types) : types \in UNION {SortedTypes(1, Len(pool), len) : len \in 0..maxlen}}

FilterCatalogs == Catalogs(FilterPool, MaxFilterRecords)
SelectCatalogs == Catalogs(SelectPool, MaxSelectRecords)

SmallCatalog == Catalog(FilterPool, << 1, 4 >>)

\* sources with malformed cells or a missing column
MalformedRows ==
    << [RawRow(Txt(<<66, 82, 65, 90, 73, 76>>), Txt(<<110, 117, 116>>), Txt(<<110, 47, 97>>), NaN) EXCEPT !.name = 1],
       [RawRow(Txt(<<67, 111, 108, 111, 109, 98, 105, 97>>), NaN, Num(-1), Num(90)) EXCEPT !.name = 2],
       [RawRow(NaN, Txt(<<114, 111, 115, 101>>), Num(9), Num(-3)) EXCEPT !.name = 3],
       \* origin U+212A 'ENYA', description 'A' U+017F 'h rose'
       [RawRow(Txt(<<8490, 69, 78, 89, 65>>), Txt(<<65, 383, 104, 32, 114, 111, 115, 101>>), Num(9), Num(88)) EXCEPT !.name = 4] >>

MalformedFiles ==
    {[exists |-> TRUE, encoding |-> "utf-8", cols |-> AllCols \ missing, rows |-> MalformedRows] :
        missing \in {{}, {"rating"}, {"acid"}, {"aroma"}, {"desc_1"}}}

\* sources whose desc_1 column holds numbers only: one with every cell filled,
\* one with a missing cell
NumericDescRows ==
    << [RawRow(Txt(<<66, 82, 65, 90, 73, 76>>), Num(2020), Num(8), Num(90)) EXCEPT !.name = 1],
       [RawRow(Txt(<<66, 82, 65, 90, 73, 76>>), NaN, Num(8), Num(91)) EXCEPT !.name = 2] >>

NumericDescFiles == {WellFormed(SubSeq(NumericDescRows, 1, n)) : n \in 1..2}

\* the small catalog in a file that utf-8 does not decode
EncodedFiles == {[SmallCatalog EXCEPT !.encoding = Encodings[n]] : n \in 2..Len(Encodings)}

\* preferences whose lowercase form is not character by character:
\* 'FRU' U+0130 'T', and the Greek capitals of 'kafes' ending in U+03A3
SpecialCasePrefs == {<<70, 82, 85, 304, 84>>, <<922, 913, 934, 904, 931>>}

Scenarios ==
    (Phrases(MaxWords) \X {AbsentFile, SmallCatalog})
        \cup (CategoryPrefs \X (FilterCatalogs \cup MalformedFiles \cup NumericDescFiles
                                 \cup EncodedFiles))
        \cup (SpecialCasePrefs \X {SmallCatalog})
        \cup ({PrefWords[6], PrefWords[2]} \X SelectCatalogs)

----------------------------------------------------------------------------
(* Engine: module import, then one call of get_coffee_recommendations *)

Init ==
    /\ \E sc \in Scenarios : preference = sc[1] /\ file = sc[2]
    /\ GLOBAL_DF = None
    /\ fileReads = 0
    /\ pc = "start"
    /\ target_type = "None"
    /\ df = << >>
    /\ result = NoResult
    /\ hpc = "idle"
    /\ clock = 0
    /\ worker = "none"
    /\ future = NoResult
    /\ response = NoResult
    /\ returnedAt = 0

\* line 53: GLOBAL_DF = load_data_once(), run when coffee_tools is imported
ImportModule ==
    /\ pc = "start"
    /\ GLOBAL_DF' = load_data_once(file)
    /\ fileReads' = fileReads + ReadsOf(file)
    /\ pc' = "ready"
    /\ UNCHANGED << file, preference, target_type, df, result >>
    /\ UNCHANGED serverVars

\* get_coffee_recommendations(preference), called directly
Recommend ==
    /\ pc = "ready"
    /\ \E o \in get_coffee_recommendations(preference, file) :
          /\ result' = o.result
          /\ target_type' = o.target_type
          /\ df' = o.df
          /\ fileReads' = fileReads + o.reads
    /\ pc' = "done"
    /\ UNCHANGED << file, GLOBAL_DF, preference >>
    /\ UNCHANGED serverVars

Next == ImportModule \/ Recommend

Spec == Init /\ [][Next]_vars


----------------------------------------------------------------------------
(* server.py: handle_call_tool *)

TIMEOUT_SECONDS == 15

TextContent(content) == [type |-> "text", content |-> content]

\* coffee['desc'][:100]
First100(s) == IF Len(s) <= 100 THEN s ELSE SubSeq(s, 1, 100)

\* lines 74-90: the text built from the engine's return value.  A
\* recommendation is rendered as its title, the flavor line and, per country,
\* the name, rating and shortened description of each coffee.
FinalText(pref, res) ==
    IF res.type = "str" THEN TextContent(res.content)
    ELSE IF res.type = "recommendation"
    THEN [type |-> "text", content |-> "recommendation", title |-> pref,
          flavor_desc |-> res.flavor_desc,
          countries |-> [i \in 1..Len(res.countries) |->
              [c_name |-> res.countries[i].country_name,
               coffees |-> [j \in 1..Len(res.countries[i].coffees) |->
                   [name |-> res.countries[i].coffees[j].name,
                    rating |-> res.countries[i].coffees[j].rating,
                    desc |-> First100(res.countries[i].coffees[j].desc)]]]]]
    ELSE TextContent(res.content)

\* preferences sent to the tool; << >> is arguments.get("preference", "")
ServerPrefs == CategoryPrefs \cup {<< >>, PrefWords[1]}

InitServer ==
    /\ file = SmallCatalog
    /\ GLOBAL_DF = load_data_once(file)
    /\ fileReads = ReadsOf(file)
    /\ pc = "ready"
    /\ preference = << >>
    /\ target_type = "None"
    /\ df = << >>
    /\ result = NoResult
    /\ hpc = "idle"
    /\ clock = 0
    /\ worker = "none"
    /\ future = NoResult
    /\ response = NoResult
    /\ returnedAt = 0

\* lines 61-63
ShowCriteria ==
    /\ hpc = "idle"
    /\ response' = TextContent("criteria")
    /\ hpc' = "returned"
    /\ returnedAt' = clock
    /\ UNCHANGED << clock, worker, future >>
    /\ UNCHANGED engineVars

\* line 93
UnknownTool ==
    /\ hpc = "idle"
    /\ response' = [type |-> "raise", content |-> "ValueError"]
    /\ hpc' = "returned"
    /\ returnedAt' = clock
    /\ UNCHANGED << clock, worker, future >>
    /\ UNCHANGED engineVars

\* lines 65-70: executor.submit, then the handler blocks in future.result
SubmitRecommend ==
    /\ hpc = "idle"
    /\ \E p \in ServerPrefs : preference' = p
    /\ worker' = "running"
    /\ hpc' = "waiting"
    /\ clock' = 0
    /\ UNCHANGED << file, GLOBAL_DF, fileReads, pc, target_type, df, result >>
    /\ UNCHANGED << future, response, returnedAt >>

\* the worker thread completes get_coffee_recommendations(preference)
WorkerFinish ==
    /\ worker = "running"
    /\ \E o \in get_coffee_recommendations(preference, file) :
          /\ result' = o.result
          /\ target_type' = o.target_type
          /\ df' = o.df
          /\ fileReads' = fileReads + o.reads
          /\ future' = o.result
    /\ worker' = "finished"
    /\ UNCHANGED << file, GLOBAL_DF, pc, preference >>
    /\ UNCHANGED << hpc, clock, response, returnedAt >>

\* one second passes while the computation runs; future.result(timeout=15)
\* does not wait past the timeout
Tick ==
    /\ worker = "running"
    /\ clock < MaxClock
    /\ ~(hpc = "waiting" /\ clock >= TIMEOUT_SECONDS)
    /\ clock' = clock + 1
    /\ UNCHANGED << hpc, worker, future, response, returnedAt >>
    /\ UNCHANGED engineVars

\* line 70 returns or re-raises what the worker produced; the with block is
\* left (the worker is idle) and lines 71-91 build the answer
FutureResult ==
    /\ hpc = "waiting"
    /\ worker = "finished"
    /\ response' = IF future.type = "raise"
                   THEN TextContent("Error: KeyError")
                   ELSE FinalText(preference, future)
    /\ hpc' = "returned"
    /\ returnedAt' = clock
    /\ UNCHANGED << clock, worker, future >>
    /\ UNCHANGED engineVars

\* line 70 raises TimeoutError, line 72 hits `return` inside the with block:
\* ThreadPoolExecutor.__exit__ runs shutdown(wait=True), which joins the worker
TimeoutFires ==
    /\ hpc = "waiting"
    /\ worker = "running"
    /\ clock = TIMEOUT_SECONDS
    /\ hpc' = "shutdown"
    /\ UNCHANGED << clock, worker, future, response, returnedAt >>
    /\ UNCHANGED engineVars

\* the join ends once the worker has finished; only then does line 72 return
\* "Error: " + str(TimeoutError()), i.e. "Error: "
ExecutorExit ==
    /\ hpc = "shutdown"
    /\ worker = "finished"
    /\ response' = TextContent("Error: ")
    /\ hpc' = "returned"
    /\ returnedAt' = clock
    /\ UNCHANGED << clock, worker, future >>
    /\ UNCHANGED engineVars

NextServer ==
    \/ ShowCriteria
    \/ UnknownTool
    \/ SubmitRecommend
    \/ WorkerFinish
    \/ Tick
    \/ FutureResult
    \/ TimeoutFires
    \/ ExecutorExit

SpecServer == InitServer /\ [][NextServer]_vars

----------------------------------------------------------------------------
(* Properties *)

Done == pc = "done"

HasUpper(s) == \E i \in 1..Len(s) : s[i] >= 65 /\ s[i] <= 90

\* C1: get_coffee_recommendations answers with the info outcome exactly when
\* the input holds a check keyword and is shorter than 15 characters; an input
\* of 15 or more characters holding a check keyword is not answered with info:
\* once the catalog is loaded it is classified, giving a recommendation, the
\* no-match message or the guidance error as its taste words decide.
C1_InfoIffShortCriteriaQuestion ==
    Done =>
        /\ result = InfoOutcome <=>
               (ContainsAny(preference, check_keywords) /\ Len(preference) < 15)
        /\ (ContainsAny(preference, check_keywords) /\ Len(preference) >= 15) =>
               /\ result.type # "info"
               /\ result # DataMissing =>
                      /\ result.type \in {"recommendation", "str", "error"}
                      /\ result = ErrorOutcome <=>
                             /\ ~ContainsAny(Lower(preference), acidic_words)
                             /\ ~ContainsAny(Lower(preference), nutty_words)

\* a 15-character input holding a check keyword was classified and answered
\* with a recommendation
C1_Witness ==
    /\ Done
    /\ ContainsAny(preference, check_keywords)
    /\ Len(preference) = 15
    /\ result.type = "recommendation"

C2_Kind(low) ==
    IF ContainsAny(low, acidic_words)
    THEN IF ContainsAny(low, floral_words) THEN "floral"
         ELSE IF ContainsAny(low, fruity_words) THEN "fruity"
         ELSE "general_acidic"
    ELSE IF ContainsAny(low, nutty_words) THEN "nutty"
    ELSE "None"

C2_Label(kind) ==
    CASE kind = "floral" -> "Floral & High Acid"
      [] kind = "fruity" -> "Fruity & High Acid"
      [] kind = "general_acidic" -> "High Acid, No Earthy"
      [] kind = "nutty" -> "Low Acid, No Citrus"

\* C2: for a request that reaches classification (not answered as info, catalog
\* loaded), the kind is decided by the lowercased input alone, by the cascade
\* acidic (floral, else fruity, else general_acidic), else nutty, else failure;
\* failure is answered with the guidance error outcome and never raises.
C2_ClassificationCascade ==
    (Done /\ result # InfoOutcome /\ result # DataMissing) =>
        LET kind == C2_Kind(Lower(preference))
        IN  /\ kind = "None" => (result = ErrorOutcome /\ target_type = "None")
            /\ kind # "None" => result # ErrorOutcome
            /\ (kind # "None" /\ result.type # "raise") =>
                   /\ target_type = kind
                   /\ result.type \in {"recommendation", "str"}
                   /\ result.type = "recommendation" => result.flavor_desc = C2_Label(kind)

\* an input in upper case holding a floral term, a fruit term and a nutty
\* trigger was classified floral
C2_Witness ==
    /\ Done
    /\ HasUpper(preference)
    /\ ~ContainsAny(preference, floral_words)
    /\ ContainsAny(Lower(preference), floral_words)
    /\ ContainsAny(Lower(preference), fruity_words)
    /\ ContainsAny(Lower(preference), nutty_words)
    /\ target_type = "floral"
    /\ result.type = "recommendation"

C3_AcidOK(kind, r) == IF kind = "nutty" THEN r.acid <= 8 ELSE r.acid >= 9

C3_ExcludeTerms(kind) ==
    IF kind = "nutty" THEN nutty_exclude_keywords ELSE acidic_exclude_keywords

C3_IncludeTerms(kind) ==
    CASE kind = "floral" -> floral_keywords
      [] kind = "fruity" -> fruity_keywords
      [] kind = "general_acidic" -> general_acidic_keywords
      [] kind = "nutty" -> nutty_keywords

\* the description holds one of the terms, case ignored
C3_HoldsTerm(r, terms) == \E k \in 1..Len(terms) : SearchIgnoreCase(r.desc_1, terms[k])

C3_Excluded(kind, r) == C3_HoldsTerm(r, C3_ExcludeTerms(kind))
C3_Included(kind, r) == C3_HoldsTerm(r, C3_IncludeTerms(kind))

\* the request ran the whole filter pipeline
C3_Filtered ==
    /\ Done
    /\ target_type # "None"
    /\ result.type \in {"recommendation", "str"}
    /\ result # DataMissing

\* C3: the include-term count is taken over the records that passed the acid
\* predicate and the exclusion step; the set is narrowed to the matching
\* records only when more than 5 match and is otherwise left as it was after
\* exclusion; either way no record with an exclude term and no record failing
\* the acid predicate is in the output.
C3_FilterOrder ==
    C3_Filtered =>
        LET kept == SelectSeq(load_data_once(file).rows,
                        LAMBDA r : C3_AcidOK(target_type, r) /\ ~C3_Excluded(target_type, r))
            hits == SelectSeq(kept, LAMBDA r : C3_Included(target_type, r))
        IN  /\ df = IF Len(hits) > 5 THEN hits ELSE kept
            /\ \A i \in 1..Len(df) :
                   C3_AcidOK(target_type, df[i]) /\ ~C3_Excluded(target_type, df[i])

\* more than 5 records of the catalog pass the acid predicate and match an
\* include term, but one of them holds an exclude term, so that 5 or fewer
\* match after exclusion: the output keeps a record that matches no include
\* term, and holds no excluded record
C3_Witness ==
    /\ C3_Filtered
    /\ LET all == load_data_once(file).rows
       IN  /\ Len(SelectSeq(all, LAMBDA r : C3_AcidOK(target_type, r)
                                              /\ C3_Included(target_type, r))) > 5
           /\ \E i \in 1..Len(all) : C3_AcidOK(target_type, all[i])
                                       /\ C3_Excluded(target_type, all[i])
    /\ \E i \in 1..Len(df) : ~C3_Included(target_type, df[i])

C4_Names == [i \in 1..Len(result.countries) |-> result.countries[i].country_name]

C4_Priority(kind) ==
    IF kind = "nutty" THEN << "Brazil", "Colombia", "Guatemala", "Indonesia", "India" >>
    ELSE << "Ethiopia", "Panama", "Kenya" >>

C4_InSeq(x, s) == \E i \in 1..Len(s) : s[i] = x

\* mean rating of country a over the filtered records is at least that of b
C4_MeanGE(a, b) ==
    LET ra == SelectSeq(df, LAMBDA r : r.country = a)
        rb == SelectSeq(df, LAMBDA r : r.country = b)
    IN  SumRatings(ra) * Len(rb) >= SumRatings(rb) * Len(ra)

\* C4: the selection starts with the category's priority countries present
\* among the filtered records, in priority order; only when fewer than 3 were
\* selected so are the remaining slots filled, from the other countries present
\* except "Other", in descending order of mean rating.  A present priority
\* country precedes every non-priority country.
C4_PriorityThenRating ==
    (Done /\ result.type = "recommendation") =>
        LET names == C4_Names
            present == {df[i].country : i \in 1..Len(df)}
            first == SelectSeq(C4_Priority(target_type), LAMBDA c : c \in present)
            others == present \ ({first[i] : i \in 1..Len(first)} \cup {"Other"})
            n == Len(first)
        IN  /\ Len(names) >= n
            /\ SubSeq(names, 1, n) = first
            /\ n >= 3 => Len(names) = n
            /\ n < 3 =>
                   /\ Len(names) = Min2(3, n + Cardinality(others))
                   /\ \A i \in (n + 1)..Len(names) : names[i] \in others
                   /\ \A i, j \in (n + 1)..Len(names) : i < j => C4_MeanGE(names[i], names[j])
                   /\ \A c \in others : ~C4_InSeq(c, names) =>
                          \A i \in (n + 1)..Len(names) : C4_MeanGE(names[i], c)

\* two priority countries are present and listed first, the third slot went
\* to the best-rated other country, which is rated above the first priority
\* country, and another country was left out
C4_Witness ==
    /\ Done
    /\ result.type = "recommendation"
    /\ Len(result.countries) = 3
    /\ C4_InSeq(C4_Names[1], C4_Priority(target_type))
    /\ C4_InSeq(C4_Names[2], C4_Priority(target_type))
    /\ ~C4_InSeq(C4_Names[3], C4_Priority(target_type))
    /\ ~C4_MeanGE(C4_Names[1], C4_Names[3])
    /\ \E i \in 1..Len(df) : df[i].country # "Other" /\ ~C4_InSeq(df[i].country, C4_Names)

C5_NoRepeat == \A i, j \in 1..Len(result.countries) : i # j => C4_Names[i] # C4_Names[j]

\* C5 as claimed: a recommendation lists at most 3 countries, none twice.
C5_AtMostThreeCountries ==
    (Done /\ result.type = "recommendation") =>
        Len(result.countries) <= 3 /\ C5_NoRepeat

\* C5, amended: a recommendation lists at most 3 countries unless more than 3
\* of the category's priority countries are present among the filtered
\* records, and then it lists exactly those priority countries (at most 5, for
\* nutty); no country appears twice.
C5_AtMostThreeOrPriority ==
    (Done /\ result.type = "recommendation") =>
        LET present == {df[i].country : i \in 1..Len(df)}
            first == SelectSeq(C4_Priority(target_type), LAMBDA c : c \in present)
        IN  /\ C5_NoRepeat
            /\ Len(first) <= 3 => Len(result.countries) <= 3
            /\ Len(first) > 3 => C4_Names = first
            /\ Len(result.countries) <= 5
            /\ target_type # "nutty" => Len(result.countries) <= 3

\* a nutty recommendation listing more than 3 countries
C5_Witness ==
    /\ Done
    /\ result.type = "recommendation"
    /\ target_type = "nutty"
    /\ Len(result.countries) > 3

\* C6: when the filter pipeline leaves nothing to recommend the request
\* returns the no-match outcome, which differs from the classification
\* error, and a recommendation never has an empty country list.
C6_NeverEmptyRecommendation ==
    /\ NoMatch # ErrorOutcome
    /\ (C3_Filtered /\ df = << >>) => result = NoMatch
    /\ (Done /\ result.type = "recommendation") => result.countries # << >>

C7_Before(rows, i, j) ==
    rows[i].rating > rows[j].rating \/ (rows[i].rating = rows[j].rating /\ i < j)

\* the rows of a country by descending rating, equal ratings in catalog order
C7_Ranked(rows) ==
    [k \in 1..Len(rows) |->
        rows[CHOOSE i \in 1..Len(rows) :
                 Cardinality({j \in 1..Len(rows) : C7_Before(rows, j, i)}) = k - 1]]

\* C7: the coffees of each listed country are the min(2, n) highest-rated of
\* its n filtered records, in descending rating, equal ratings in catalog order.
C7_TopTwoInCatalogOrder ==
    (Done /\ result.type = "recommendation") =>
        \A c \in 1..Len(result.countries) :
            LET mine == SelectSeq(df, LAMBDA r : r.country = result.countries[c].country_name)
                top == SubSeq(C7_Ranked(mine), 1, Min2(2, Len(mine)))
            IN  result.countries[c].coffees = [k \in 1..Len(top) |-> Coffee(top[k])]

TimedOut == hpc = "returned" /\ response = TextContent("Error: ")

\* C8: when the computation is unfinished as the 15-second timeout fires, the
\* handler answers with the timeout outcome at that point, without waiting for
\* the computation to finish.
C8_AnswersAtTimeout ==
    /\ hpc = "shutdown" => clock = TIMEOUT_SECONDS
    /\ TimedOut => returnedAt = TIMEOUT_SECONDS

\* C9: the source file is loaded once, at import, and no request reads it
\* again: pd.read_csv never runs more often than one load of the file takes.
C9_FileReadOnce == fileReads <= ReadsOf(file)

\* C10: after a successful load every record has the six numeric fields,
\* each non-negative.
C10_NumericFieldsNonNegative ==
    GLOBAL_DF.ok =>
        /\ NumericCols \subseteq GLOBAL_DF.cols
        /\ \A i \in 1..Len(GLOBAL_DF.rows) : \A col \in NumericCols :
               GLOBAL_DF.rows[i][col] >= 0
====
